---- MODULE Spec2Model ----
(***************************************************************************)
(* Model of src/main.py: the humidity monitoring controller.               *)
(*                                                                         *)
(* The program is one sequential thread.  Its state is the control         *)
(* position in main (pc), the global list humidity_readings, the locals    *)
(* of process_humidity, and the observable output (LCD writes, prints,     *)
(* log entries, sleeps, remote requests), which is kept as the list of     *)
(* events of the current cycle (trace).  The collaborators (WLAN, HTTP     *)
(* transport, DHT22) are inputs chosen nondeterministically.               *)
(*                                                                         *)
(* JSON values and Python values are tagged records: None, Dict, List,     *)
(* Str (a sequence of one-character strings).  A Python call that may      *)
(* raise is an operator returning a record with a field "raised".          *)
(***************************************************************************)
EXTENDS Integers, Sequences, FiniteSets, TLC

\* ------------------------------------------------------------------ bounds
\* number of iterations of the `while True` loop that are explored
MaxCycles == 3
\* the functions taken alone: largest reading classified, longest history averaged
MaxHumidity == 100
MaxHistory == 3

\* ------------------------------------------------------- program constants
WifiAttempts == 10
IDEAL_HUMIDITY_LOW == 60
IDEAL_HUMIDITY_HIGH == 75
AdviceTokens == 20

SENSOR_STATUS_ENDPOINT == "sensor_status/status?id=1"
DATA_INSERT_ENDPOINT == "sensor_status/data"

\* ---------------------------------------------------------- Python values
None == [t |-> "none"]
Dict(f) == [t |-> "dict", v |-> f]
List(s) == [t |-> "list", v |-> s]
Str(s) == [t |-> "str", v |-> s]
EmptyMap == [k \in {} |-> 0]

\* truth value of a Python object (`x or {}`, `if response:`)
Truthy(x) ==
    CASE x.t = "none" -> FALSE
      [] x.t = "dict" -> DOMAIN x.v # {}
      [] x.t = "list" -> Len(x.v) > 0
      [] x.t = "str" -> Len(x.v) > 0

\* d.get(k, default) on a dict
DictGet(d, k, default) == IF k \in DOMAIN d.v THEN d.v[k] ELSE default

\* x[0]: IndexError on an empty list, KeyError on a dict without key 0
\* (the dicts of a JSON document have string keys only)
Subscript0(x) ==
    IF x.t = "list" /\ Len(x.v) > 0
    THEN [raised |-> FALSE, val |-> x.v[1]]
    ELSE [raised |-> TRUE, val |-> None]

\* string literals of the program, as character sequences
ON == <<"O", "N">>
OFF == <<"O", "F", "F">>
NoAdvice == <<"N", "o", " ", "a", "d", "v", "i", "c", "e", " ",
              "a", "v", "a", "i", "l", "a", "b", "l", "e", ".">>
Ellipsis == <<".", ".", ".">>

\* ------------------------------------------------------------ str methods
IsSpace(c) == c \in {" ", "\n", "\t"}

\* str.split(): the maximal runs of non-whitespace characters
RECURSIVE SplitFrom(_, _, _)
SplitFrom(s, i, cur) ==
    IF i > Len(s)
    THEN (IF cur = <<>> THEN <<>> ELSE <<cur>>)
    ELSE IF IsSpace(s[i])
         THEN (IF cur = <<>> THEN SplitFrom(s, i + 1, <<>>)
               ELSE <<cur>> \o SplitFrom(s, i + 1, <<>>))
         ELSE SplitFrom(s, i + 1, Append(cur, s[i]))

Split(s) == SplitFrom(s, 1, <<>>)

\* ' '.join(tokens)
RECURSIVE Join(_)
Join(tokens) ==
    IF tokens = <<>> THEN <<>>
    ELSE IF Len(tokens) = 1 THEN tokens[1]
    ELSE tokens[1] \o <<" ">> \o Join(Tail(tokens))

\* tokens[:n]
Slice(tokens, n) == SubSeq(tokens, 1, IF Len(tokens) < n THEN Len(tokens) ELSE n)

\* variant: the marker is appended only when tokens were cut
TruncateAdvice_OnlyWhenCut(text) ==
    Join(Slice(Split(text), AdviceTokens))
        \o (IF Len(Split(text)) > AdviceTokens THEN Ellipsis ELSE <<>>)

\* ' '.join(advice_text.split()[:20]) + '...'
TruncateAdvice(text) == Join(Slice(Split(text), AdviceTokens)) \o Ellipsis

\* ------------------------------------------------- inputs: HTTP transport
\* What one HTTP exchange can do: the request raises (timeout, no route),
\* the body is not JSON (response.json() raises), or the body parses.
Raise == [kind |-> "raise"]
BadJson == [kind |-> "badjson"]
Body(d) == [kind |-> "body", body |-> d]

Item(s) == Dict([status |-> Str(s)])
StatusBodies ==
    { Dict(EmptyMap),
      Dict([error |-> Str(<<"x">>)]),
      Dict([items |-> List(<<>>)]),
      Dict([items |-> List(<<Dict(EmptyMap)>>)]),
      Dict([items |-> List(<<Item(ON)>>)]),
      Dict([items |-> List(<<Item(OFF)>>)]),
      Dict([items |-> List(<<Item(<<"o", "n">>)>>)]),
      Dict([items |-> List(<<Item(OFF), Item(ON)>>)]) }
StatusOutcomes == {Raise, BadJson} \cup {Body(d) : d \in StatusBodies}

RECURSIVE Words(_)
Words(n) == IF n = 0 THEN <<>> ELSE IF n = 1 THEN <<"a">> ELSE <<"a", " ">> \o Words(n - 1)

Part(s) == Dict([text |-> Str(s)])
Candidate(parts) == Dict([content |-> Dict([parts |-> List(parts)])])
AdviceTexts == {<<>>, <<" ", "a", " ", " ", "b", "\n">>, <<"a", "b", "\t", "c">>,
                Words(AdviceTokens), Words(AdviceTokens + 1)}
AdviceBodies ==
    { Dict(EmptyMap),
      Dict([error |-> Str(<<"x">>)]),
      Dict([candidates |-> List(<<>>)]),
      Dict([candidates |-> List(<<Dict(EmptyMap)>>)]),
      Dict([candidates |-> List(<<Dict([content |-> Dict(EmptyMap)])>>)]),
      Dict([candidates |-> List(<<Candidate(<<>>)>>)]),
      Dict([candidates |-> List(<<Candidate(<<Dict(EmptyMap)>>)>>)]) }
    \cup {Dict([candidates |-> List(<<Candidate(<<Part(s)>>)>>)]) : s \in AdviceTexts}
AdviceOutcomes == {Raise, BadJson} \cup {Body(d) : d \in AdviceBodies}

UploadOutcomes == {Raise, Body(Dict(EmptyMap))}

\* ---------------------------------------------------------- inputs: DHT22
Humidities == {50, 60, 65, 75, 76}
SensorRaise == [kind |-> "raise"]
SensorNone == [kind |-> "none"]
SensorValue(v) == [kind |-> "value", v |-> v]
SensorOutcomes == {SensorRaise, SensorNone} \cup {SensorValue(v) : v \in Humidities}

\* --------------------------------------------------------------- log()
LogEntry(level, msg, detail) == [level |-> level, msg |-> msg, detail |-> detail]

\* ------------------------------------------------------ remote primitives
\* The result of a primitive: its return value, the log entries it wrote,
\* and whether an exception left it.
Returned(val, logs) == [ret |-> val, logs |-> logs, raised |-> FALSE]

\* variant: a body that does not parse is swallowed without a log entry
request_endpoint_Silent(url, method, outcome) ==
    IF outcome.kind = "raise"
    THEN Returned(None, <<LogEntry("error", "Failed to reach endpoint", url)>>)
    ELSE IF method = "post" \/ outcome.kind = "badjson"
    THEN Returned(None, <<>>)
    ELSE Returned(outcome.body, <<>>)

request_endpoint(url, method, outcome) ==
    IF outcome.kind = "raise"
    THEN Returned(None, <<LogEntry("error", "Failed to reach endpoint", url)>>)
    ELSE IF method = "post"
    THEN Returned(None, <<>>)
    ELSE IF outcome.kind = "badjson"
    THEN Returned(None, <<LogEntry("error", "Failed to reach endpoint", url)>>)
    ELSE Returned(outcome.body, <<>>)

request_gemini_response(outcome) ==
    IF outcome.kind \in {"raise", "badjson"}
    THEN Returned(None, <<LogEntry("error", "Failed to reach Gemini endpoint", "")>>)
    ELSE Returned(outcome.body, <<>>)

\* ------------------------------------------------------------ pure helpers
\* variant: every status other than "OFF" enables the cycle
check_sensor_status_NotOff(outcome) ==
    LET r == request_endpoint(SENSOR_STATUS_ENDPOINT, "get", outcome)
        data == IF Truthy(r.ret) THEN r.ret ELSE Dict(EmptyMap)
        items == DictGet(data, "items", Dict(EmptyMap))
        first == Subscript0(items)
    IN  IF first.raised
        THEN [ret |-> FALSE, logs |-> r.logs, raised |-> TRUE]
        ELSE [ret |-> DictGet(first.val, "status", Str(OFF)) # Str(OFF),
              logs |-> r.logs, raised |-> FALSE]

\* check_sensor_status: True/False, or the exception of `[0]` leaves it
check_sensor_status(outcome) ==
    LET r == request_endpoint(SENSOR_STATUS_ENDPOINT, "get", outcome)
        data == IF Truthy(r.ret) THEN r.ret ELSE Dict(EmptyMap)
        items == DictGet(data, "items", Dict(EmptyMap))
        first == Subscript0(items)
    IN  IF first.raised
        THEN [ret |-> FALSE, logs |-> r.logs, raised |-> TRUE]
        ELSE [ret |-> DictGet(first.val, "status", Str(OFF)) = Str(ON),
              logs |-> r.logs, raised |-> FALSE]

\* variant: the lower threshold itself counts as too dry
calculate_humidity_status_Inclusive(humidity) ==
    IF humidity <= IDEAL_HUMIDITY_LOW THEN "Too Dry!"
    ELSE IF humidity > IDEAL_HUMIDITY_HIGH THEN "Too Humid!"
    ELSE "Optimal"

calculate_humidity_status(humidity) ==
    IF humidity < IDEAL_HUMIDITY_LOW THEN "Too Dry!"
    ELSE IF humidity > IDEAL_HUMIDITY_HIGH THEN "Too Humid!"
    ELSE "Optimal"

RECURSIVE Sum(_)
Sum(s) == IF s = <<>> THEN 0 ELSE Head(s) + Sum(Tail(s))

RECURSIVE Gcd(_, _)
Gcd(a, b) == IF b = 0 THEN a ELSE Gcd(b, a % b)

\* the quotient a / b as a number: the fraction in lowest terms
Quotient(a, b) == [num |-> a \div Gcd(a, b), den |-> b \div Gcd(a, b)]

\* variant: floor division
calculate_average_humidity_Floor(readings) ==
    IF Len(readings) > 0 THEN [num |-> Sum(readings) \div Len(readings), den |-> 1]
    ELSE [num |-> 0, den |-> 1]

\* sum(humidity_readings) / len(humidity_readings) if humidity_readings else 0
calculate_average_humidity(readings) ==
    IF Len(readings) > 0 THEN Quotient(Sum(readings), Len(readings))
    ELSE [num |-> 0, den |-> 1]

\* --------------------------------------------------------------- events
Ev(op, arg) == [op |-> op, arg |-> arg]

\* update_lcd(message, delay): clear, write, hold
update_lcd(text, delay) == <<Ev("lcd", [text |-> text, delay |-> delay])>>

LcdReading(humidity, status) == [kind |-> "Humidity", humidity |-> humidity, status |-> status]
LcdAdvice(status, advice) == [kind |-> "advice", status |-> status, advice |-> advice]
LcdText(s) == [kind |-> s]

LogEvents(logs) == [i \in 1..Len(logs) |-> Ev("log", logs[i])]

\* a remote request that was issued
Call(prim, method, url, payload, outcome, result) ==
    Ev("call", [prim |-> prim, method |-> method, url |-> url, payload |-> payload,
                outcome |-> outcome, result |-> result])

\* generate_vegetable_suggestions: the events it produces and whether an
\* exception leaves it (before anything is displayed)
generate_vegetable_suggestions(humidity, humidity_status, outcome) ==
    LET r == request_gemini_response(outcome)
        call == Call("request_gemini_response", "post", "gemini",
                     [humidity |-> humidity, status |-> humidity_status], outcome, r)
        pre == <<call>> \o LogEvents(r.logs)
        candidates == DictGet(r.ret, "candidates", List(<<Dict(EmptyMap)>>))
        first == Subscript0(candidates)
        content == DictGet(first.val, "content", Dict(EmptyMap))
        generated_text == DictGet(content, "parts", List(<<>>))
        part == Subscript0(generated_text)
        advice_text == DictGet(part.val, "text", Str(NoAdvice))
    IN  IF ~Truthy(r.ret)
        THEN [events |-> pre \o update_lcd(LcdText("Failed to get advice"), 2),
              raised |-> FALSE]
        ELSE IF first.raised \/ part.raised
        THEN [events |-> pre, raised |-> TRUE]
        ELSE [events |-> pre \o update_lcd(LcdAdvice(humidity_status,
                                            TruncateAdvice(advice_text.v)), 3),
              raised |-> FALSE]

\* store_humidity_data: one POST of the reading and the average
store_humidity_data(humidity, avg_humidity, outcome) ==
    LET r == request_endpoint(DATA_INSERT_ENDPOINT, "post", outcome)
        params == [humidity |-> humidity, datetime |-> "localtime",
                   avg_humidity |-> avg_humidity]
    IN  [events |-> <<Call("request_endpoint", "post", DATA_INSERT_ENDPOINT,
                           params, outcome, r)>> \o LogEvents(r.logs),
         raised |-> r.raised]

\* ------------------------------------------------------------------ state
VARIABLES
    pc,                 \* control position in main
    polls,              \* completed iterations of the loop in connect_wifi (its local)
    wifi,               \* result of connect_wifi: "pending", "up", "down"
    humidity_readings,  \* the global list
    locals,             \* humidity, avg_humidity, humidity_status of process_humidity
    trace,              \* events since the start of the current cycle (or of main)
    cycles,             \* completed iterations of the while loop
    issued,             \* how many times each collaborator was called so far
    inputs              \* what the collaborators did in the current cycle

vars == <<pc, polls, wifi, humidity_readings, locals, trace, cycles, issued, inputs>>

Unset == [kind |-> "unset"]
NoLocals == [humidity |-> 0, avg_humidity |-> [num |-> 0, den |-> 1], humidity_status |-> ""]
NoInputs == [status |-> Unset, sensor |-> Unset, advice |-> Unset, upload |-> Unset,
             before |-> <<>>]
NothingIssued == [connect_wifi |-> 0, status |-> 0, sensor |-> 0, advice |-> 0, upload |-> 0]

Init ==
    /\ pc = "start"
    /\ polls = 0
    /\ wifi = "pending"
    /\ humidity_readings = <<>>
    /\ locals = NoLocals
    /\ trace = <<>>
    /\ cycles = 0
    /\ issued = NothingIssued
    /\ inputs = NoInputs

\* ------------------------------------------------------------ main: start
\* main, line 150: the banner
Banner ==
    /\ pc = "start"
    /\ trace' = trace \o update_lcd(LcdText("Veg Sanitization\nInitializing..."), 2)
    /\ pc' = "connect"
    /\ UNCHANGED <<polls, wifi, humidity_readings, locals, cycles, issued, inputs>>

\* connect_wifi up to the loop: the link is up already, or a connection is started
ConnectWifi ==
    /\ pc = "connect"
    /\ \E up \in BOOLEAN :
         IF up
         THEN /\ trace' = trace \o <<Ev("isconnected", [at |-> "entry", up |-> TRUE]),
                                     Ev("print", "Already connected.")>>
              /\ wifi' = "up"
              /\ pc' = "loop"
         ELSE /\ trace' = trace \o <<Ev("isconnected", [at |-> "entry", up |-> FALSE]),
                                     Ev("print", "Connecting to WiFi..."),
                                     Ev("connect", "Wokwi-GUEST")>>
              /\ wifi' = "pending"
              /\ pc' = "wifi_poll"
    /\ issued' = [issued EXCEPT !.connect_wifi = @ + 1]
    /\ polls' = 0
    /\ UNCHANGED <<humidity_readings, locals, cycles, inputs>>

\* variant: one iteration too many
WifiPoll_OffByOne ==
    /\ pc = "wifi_poll"
    /\ polls <= WifiAttempts
    /\ \E up \in BOOLEAN :
         IF up
         THEN /\ trace' = trace \o <<Ev("isconnected", [at |-> "loop", up |-> TRUE]),
                                     Ev("print", "WiFi Connected!")>>
              /\ wifi' = "up"
              /\ pc' = "loop"
              /\ polls' = 0
         ELSE /\ trace' = trace \o <<Ev("isconnected", [at |-> "loop", up |-> FALSE]),
                                     Ev("sleep", 1)>>
              /\ wifi' = wifi
              /\ pc' = pc
              /\ polls' = polls + 1
    /\ UNCHANGED <<humidity_readings, locals, cycles, issued, inputs>>

\* one iteration of `for _ in range(10)`
WifiPoll ==
    /\ pc = "wifi_poll"
    /\ polls < WifiAttempts
    /\ \E up \in BOOLEAN :
         IF up
         THEN /\ trace' = trace \o <<Ev("isconnected", [at |-> "loop", up |-> TRUE]),
                                     Ev("print", "WiFi Connected!")>>
              /\ wifi' = "up"
              /\ pc' = "loop"
              /\ polls' = 0
         ELSE /\ trace' = trace \o <<Ev("isconnected", [at |-> "loop", up |-> FALSE]),
                                     Ev("sleep", 1)>>
              /\ wifi' = wifi
              /\ pc' = pc
              /\ polls' = polls + 1
    /\ UNCHANGED <<humidity_readings, locals, cycles, issued, inputs>>

\* the loop of connect_wifi is exhausted: it returns False
WifiGiveUp ==
    /\ pc = "wifi_poll"
    /\ polls >= WifiAttempts
    /\ trace' = trace \o <<Ev("print", "WiFi Connect Failed")>>
    /\ wifi' = "down"
    /\ pc' = "wifi_fail"
    /\ UNCHANGED <<polls, humidity_readings, locals, cycles, issued, inputs>>

\* variant: the return after the fatal message is missing
WifiFail_NoReturn ==
    /\ pc = "wifi_fail"
    /\ trace' = trace \o update_lcd(LcdText("WiFi Fail!\nCheck config"), 2)
    /\ pc' = "loop"
    /\ UNCHANGED <<polls, wifi, humidity_readings, locals, cycles, issued, inputs>>

\* main, lines 152-153: the fatal message, then return
WifiFail ==
    /\ pc = "wifi_fail"
    /\ trace' = trace \o update_lcd(LcdText("WiFi Fail!\nCheck config"), 2)
    /\ pc' = "halted"
    /\ UNCHANGED <<polls, wifi, humidity_readings, locals, cycles, issued, inputs>>

\* ------------------------------------------------------------- main: loop
\* line 156: the status poll that opens a cycle.  An exception that leaves
\* check_sensor_status is not handled anywhere in main: the program ends.
CheckSensorStatus ==
    /\ pc = "loop"
    /\ cycles < MaxCycles
    /\ \E outcome \in StatusOutcomes :
         LET r == check_sensor_status(outcome)
             call == Call("request_endpoint", "get", SENSOR_STATUS_ENDPOINT, None, outcome,
                          request_endpoint(SENSOR_STATUS_ENDPOINT, "get", outcome))
         IN  /\ trace' = <<call>> \o LogEvents(r.logs)
             /\ inputs' = [NoInputs EXCEPT !.status = outcome, !.before = humidity_readings]
             /\ pc' = IF r.raised THEN "crashed"
                      ELSE IF r.ret THEN "process" ELSE "sensor_off"
    /\ issued' = [issued EXCEPT !.status = @ + 1]
    /\ locals' = NoLocals
    /\ UNCHANGED <<polls, wifi, humidity_readings, cycles>>

\* line 159
SensorOff ==
    /\ pc = "sensor_off"
    /\ trace' = trace \o update_lcd(LcdText("Sensor is OFF"), 2)
    /\ pc' = "idle"
    /\ UNCHANGED <<polls, wifi, humidity_readings, locals, cycles, issued, inputs>>

\* variant: the average is taken before the reading is appended
Reading_AverageFirst(outcome) ==
    LET humidity == outcome.v
        readings == Append(humidity_readings, humidity)
        avg_humidity == calculate_average_humidity(humidity_readings)
        humidity_status == calculate_humidity_status(humidity)
    IN  /\ humidity_readings' = readings
        /\ locals' = [humidity |-> humidity, avg_humidity |-> avg_humidity,
                      humidity_status |-> humidity_status]
        /\ trace' = trace \o <<Ev("measure", outcome), Ev("average", avg_humidity),
                            Ev("append", humidity), Ev("classify", humidity_status)>>
                          \o update_lcd(LcdReading(humidity, humidity_status), 3)
        /\ pc' = "advise"

\* variant: the reading is inserted at the front of the list
Reading_Prepend(outcome) ==
    LET humidity == outcome.v
        readings == <<humidity>> \o humidity_readings
        avg_humidity == calculate_average_humidity(readings)
        humidity_status == calculate_humidity_status(humidity)
    IN  /\ humidity_readings' = readings
        /\ locals' = [humidity |-> humidity, avg_humidity |-> avg_humidity,
                      humidity_status |-> humidity_status]
        /\ trace' = trace \o <<Ev("measure", outcome), Ev("append", humidity),
                            Ev("average", avg_humidity), Ev("classify", humidity_status)>>
                          \o update_lcd(LcdReading(humidity, humidity_status), 3)
        /\ pc' = "advise"

\* variant: the reading is uploaded without the advisory step
Reading_SkipAdvice(outcome) ==
    LET humidity == outcome.v
        readings == Append(humidity_readings, humidity)
        avg_humidity == calculate_average_humidity(readings)
        humidity_status == calculate_humidity_status(humidity)
    IN  /\ humidity_readings' = readings
        /\ locals' = [humidity |-> humidity, avg_humidity |-> avg_humidity,
                      humidity_status |-> humidity_status]
        /\ trace' = trace \o <<Ev("measure", outcome), Ev("append", humidity),
                            Ev("average", avg_humidity), Ev("classify", humidity_status)>>
                          \o update_lcd(LcdReading(humidity, humidity_status), 3)
        /\ pc' = "store"

\* process_humidity, lines 139-142: append, average, classify, display (3 s)
Reading(outcome) ==
    LET humidity == outcome.v
        readings == Append(humidity_readings, humidity)
        avg_humidity == calculate_average_humidity(readings)
        humidity_status == calculate_humidity_status(humidity)
    IN  /\ humidity_readings' = readings
        /\ locals' = [humidity |-> humidity, avg_humidity |-> avg_humidity,
                      humidity_status |-> humidity_status]
        /\ trace' = trace \o <<Ev("measure", outcome), Ev("append", humidity),
                            Ev("average", avg_humidity), Ev("classify", humidity_status)>>
                          \o update_lcd(LcdReading(humidity, humidity_status), 3)
        /\ pc' = "advise"

\* variant: the test `humidity is not None` is missing, None is recorded
ReadSensor_NoNoneTest ==
    /\ pc = "process"
    /\ \E outcome \in SensorOutcomes :
         /\ inputs' = [inputs EXCEPT !.sensor = outcome]
         /\ IF outcome.kind = "raise"
            THEN /\ trace' = trace \o <<Ev("measure", outcome)>>
                 /\ pc' = "except"
                 /\ UNCHANGED <<humidity_readings, locals>>
            ELSE LET humidity == IF outcome.kind = "none" THEN 0 ELSE outcome.v
                     readings == Append(humidity_readings, humidity)
                     avg_humidity == calculate_average_humidity(readings)
                     humidity_status == calculate_humidity_status(humidity)
                 IN  /\ humidity_readings' = readings
                     /\ locals' = [humidity |-> humidity, avg_humidity |-> avg_humidity,
                                   humidity_status |-> humidity_status]
                     /\ trace' = trace \o <<Ev("measure", outcome), Ev("append", humidity),
                                                Ev("average", avg_humidity),
                                                Ev("classify", humidity_status)>>
                                       \o update_lcd(LcdReading(humidity, humidity_status), 3)
                     /\ pc' = "advise"
    /\ issued' = [issued EXCEPT !.sensor = @ + 1]
    /\ UNCHANGED <<polls, wifi, cycles>>

\* process_humidity, lines 136-142: measure, read, and on a reading go on
ReadSensor ==
    /\ pc = "process"
    /\ \E outcome \in SensorOutcomes :
         /\ inputs' = [inputs EXCEPT !.sensor = outcome]
         /\ IF outcome.kind = "raise"
            THEN /\ trace' = trace \o <<Ev("measure", outcome)>>
                 /\ pc' = "except"
                 /\ UNCHANGED <<humidity_readings, locals>>
            ELSE IF outcome.kind = "none"
            THEN /\ trace' = trace \o <<Ev("measure", outcome)>>
                 /\ pc' = "idle"
                 /\ UNCHANGED <<humidity_readings, locals>>
            ELSE Reading(outcome)
    /\ issued' = [issued EXCEPT !.sensor = @ + 1]
    /\ UNCHANGED <<polls, wifi, cycles>>

\* process_humidity, line 143
Advise ==
    /\ pc = "advise"
    /\ \E outcome \in AdviceOutcomes :
         LET r == generate_vegetable_suggestions(locals.humidity, locals.humidity_status,
                                                 outcome)
         IN  /\ trace' = trace \o r.events
             /\ inputs' = [inputs EXCEPT !.advice = outcome]
             /\ pc' = IF r.raised THEN "except" ELSE "store"
    /\ issued' = [issued EXCEPT !.advice = @ + 1]
    /\ UNCHANGED <<polls, wifi, humidity_readings, locals, cycles>>

\* variant: the upload carries the oldest reading of the history
Store_FirstReading ==
    /\ pc = "store"
    /\ \E outcome \in UploadOutcomes :
         LET r == store_humidity_data(humidity_readings[1], locals.avg_humidity, outcome)
         IN  /\ trace' = trace \o r.events
             /\ inputs' = [inputs EXCEPT !.upload = outcome]
             /\ pc' = IF r.raised THEN "except" ELSE "idle"
    /\ issued' = [issued EXCEPT !.upload = @ + 1]
    /\ UNCHANGED <<polls, wifi, humidity_readings, locals, cycles>>

\* variant: a failed upload is sent a second time
Store_Retry ==
    /\ pc = "store"
    /\ \E outcome \in UploadOutcomes :
         LET r == store_humidity_data(locals.humidity, locals.avg_humidity, outcome)
         IN  /\ trace' = trace \o r.events \o (IF outcome.kind = "raise" THEN r.events ELSE <<>>)
             /\ inputs' = [inputs EXCEPT !.upload = outcome]
             /\ pc' = IF r.raised THEN "except" ELSE "idle"
    /\ issued' = [issued EXCEPT !.upload = @ + 1]
    /\ UNCHANGED <<polls, wifi, humidity_readings, locals, cycles>>

\* process_humidity, line 144
Store ==
    /\ pc = "store"
    /\ \E outcome \in UploadOutcomes :
         LET r == store_humidity_data(locals.humidity, locals.avg_humidity, outcome)
         IN  /\ trace' = trace \o r.events
             /\ inputs' = [inputs EXCEPT !.upload = outcome]
             /\ pc' = IF r.raised THEN "except" ELSE "idle"
    /\ issued' = [issued EXCEPT !.upload = @ + 1]
    /\ UNCHANGED <<polls, wifi, humidity_readings, locals, cycles>>

\* variant: after the handler the upload is still made
SensorError_FallThrough ==
    /\ pc = "except"
    /\ trace' = trace \o <<Ev("log", LogEntry("error", "Sensor error", ""))>>
                      \o update_lcd(LcdText("Sensor error"), 2)
    /\ pc' = "store"
    /\ UNCHANGED <<polls, wifi, humidity_readings, locals, cycles, issued, inputs>>

\* process_humidity, lines 145-147: the handler of the try block
SensorError ==
    /\ pc = "except"
    /\ trace' = trace \o <<Ev("log", LogEntry("error", "Sensor error", ""))>>
                      \o update_lcd(LcdText("Sensor error"), 2)
    /\ pc' = "idle"
    /\ UNCHANGED <<polls, wifi, humidity_readings, locals, cycles, issued, inputs>>

\* lines 160-161: the idle message and the pause that close every cycle
Idle ==
    /\ pc = "idle"
    /\ trace' = trace \o update_lcd(LcdText("Sensor working..."), 2) \o <<Ev("sleep", 2)>>
    /\ cycles' = cycles + 1
    /\ pc' = "loop"
    /\ UNCHANGED <<polls, wifi, humidity_readings, locals, issued, inputs>>

Next ==
    \/ Banner
    \/ ConnectWifi
    \/ WifiPoll
    \/ WifiGiveUp
    \/ WifiFail
    \/ CheckSensorStatus
    \/ SensorOff
    \/ ReadSensor
    \/ Advise
    \/ Store
    \/ SensorError
    \/ Idle

Spec == Init /\ [][Next]_vars

TypeOK ==
    /\ pc \in {"start", "connect", "wifi_poll", "wifi_fail", "halted", "loop", "crashed",
               "sensor_off", "process", "advise", "store", "except", "idle"}
    /\ polls \in 0..WifiAttempts
    /\ wifi \in {"pending", "up", "down"}
    /\ cycles \in 0..MaxCycles

\* ------------------------------------------------- reading the event list
HasLcd(kind) == \E i \in DOMAIN trace : trace[i].op = "lcd" /\ trace[i].arg.text.kind = kind
IsCall(e) == e.op = "call"
IsStatusPoll(e) == IsCall(e) /\ e.arg.url = SENSOR_STATUS_ENDPOINT
IsAdviceRequest(e) == IsCall(e) /\ e.arg.prim = "request_gemini_response"
IsUpload(e) == IsCall(e) /\ e.arg.url = DATA_INSERT_ENDPOINT
Indices(P(_)) == {i \in DOMAIN trace : P(trace[i])}
IsMeasure(e) == e.op = "measure"
IsAppend(e) == e.op = "append"
IsLoopPoll(e) == e.op = "isconnected" /\ e.arg.at = "loop"

\* the first item of the polled document carries the status "ON"
StatusExactlyON(outcome) ==
    /\ outcome.kind = "body"
    /\ "items" \in DOMAIN outcome.body.v
    /\ outcome.body.v["items"].t = "list"
    /\ Len(outcome.body.v["items"].v) >= 1
    /\ "status" \in DOMAIN outcome.body.v["items"].v[1].v
    /\ outcome.body.v["items"].v[1].v["status"].v = ON

\* the poll gave no usable status: no document, no 'items', no first item,
\* or a first item without 'status'
NoUsableStatus(outcome) ==
    \/ outcome.kind \in {"raise", "badjson"}
    \/ /\ outcome.kind = "body"
       /\ \/ "items" \notin DOMAIN outcome.body.v
          \/ Len(outcome.body.v["items"].v) = 0
          \/ "status" \notin DOMAIN outcome.body.v["items"].v[1].v

\* the advisory call gave null, or a document without a first text part
AdviceUnusable(outcome) ==
    \/ outcome.kind \in {"raise", "badjson"}
    \/ /\ outcome.kind = "body"
       /\ \/ "candidates" \notin DOMAIN outcome.body.v
          \/ Len(outcome.body.v["candidates"].v) = 0
          \/ "content" \notin DOMAIN outcome.body.v["candidates"].v[1].v
          \/ "parts" \notin DOMAIN outcome.body.v["candidates"].v[1].v["content"].v
          \/ Len(outcome.body.v["candidates"].v[1].v["content"].v["parts"].v) = 0

\* the cycle has passed its processing part
CycleClosing == pc \in {"idle", "loop"}

\* ----------------------------------------------------------------- claims

\* C1: once connect_wifi has returned true the monitoring loop never halts:
\* whatever the status poll, the sensor, the advisory call and the upload do,
\* main is never left.
C1_LoopNeverHalts == wifi = "up" => pc \notin {"crashed", "halted"}

\* C2: when the status poll yields no usable status, check_sensor_status
\* returns false without raising and the cycle is a disabled cycle:
\* "Sensor is OFF" is shown and nothing is processed.
C2_NoStatusIsDisabled ==
    NoUsableStatus(inputs.status) =>
        /\ pc \in {"sensor_off", "idle", "loop"}
        /\ CycleClosing => HasLcd("Sensor is OFF")

\* C3: a sensor measurement, a history append, an advisory request and an
\* upload occur in a cycle only if its status poll returned a first item
\* with status "ON"; in any other cycle none of them occurs and the history
\* is what it was when the cycle began.
C3_ProcessingOnlyWhenON ==
    /\ (\/ pc \in {"process", "advise", "store", "except"}
        \/ Indices(IsMeasure) # {}
        \/ Indices(IsAppend) # {}
        \/ Indices(IsAdviceRequest) # {}
        \/ Indices(IsUpload) # {})
       => StatusExactlyON(inputs.status)
    /\ ~StatusExactlyON(inputs.status) =>
         /\ humidity_readings = inputs.before
         /\ inputs.sensor = Unset /\ inputs.advice = Unset /\ inputs.upload = Unset

C3_Witness ==
    /\ pc = "loop"
    /\ inputs.status.kind = "body"
    /\ "items" \in DOMAIN inputs.status.body.v
    /\ ~StatusExactlyON(inputs.status)
    /\ Len(humidity_readings) > 0
    /\ HasLcd("Sensor is OFF")

\* C4: in an enabled cycle whose sensor read fails (measure raises, or the
\* humidity is None) the history is unchanged, no advisory request and no
\* upload is issued, and the cycle goes on to its idle step and the next poll.
C4_SensorFailureSkipsCycle ==
    inputs.sensor.kind \in {"raise", "none"} =>
        /\ humidity_readings = inputs.before
        /\ Indices(IsAppend) = {}
        /\ Indices(IsAdviceRequest) = {}
        /\ Indices(IsUpload) = {}
        /\ pc \in {"except", "idle", "loop"}
        /\ pc = "loop" =>
             /\ trace[Len(trace)] = Ev("sleep", 2)
             /\ trace[Len(trace) - 1] = update_lcd(LcdText("Sensor working..."), 2)[1]

C4_Witness ==
    /\ pc = "loop"
    /\ inputs.sensor.kind = "raise"
    /\ Len(inputs.before) > 0
    /\ cycles < MaxCycles

\* C5: in an enabled cycle whose sensor read fails in any way, the humidity
\* None included, "Sensor error" is shown during the cycle.
C5_SensorFailureShowsError ==
    (inputs.sensor.kind \in {"raise", "none"} /\ CycleClosing) => HasLcd("Sensor error")

\* C6: generate_vegetable_suggestions never raises: on a null response or a
\* response with missing fields it shows "Failed to get advice" and returns.
C6_AdviceNeverRaises ==
    (inputs.advice # Unset /\ AdviceUnusable(inputs.advice)) =>
        /\ pc # "except"
        /\ HasLcd("Failed to get advice")

\* C7: in every enabled cycle with a reading, exactly one upload carrying
\* that reading is issued, whatever the advisory call did.
C7_UploadWhateverAdvice ==
    (inputs.sensor.kind = "value" /\ CycleClosing) =>
        /\ Cardinality(Indices(IsUpload)) = 1
        /\ \A i \in Indices(IsUpload) : trace[i].arg.payload.humidity = inputs.sensor.v

\* C8: connect_wifi is invoked exactly once; when it returned false the
\* fatal message is shown and no status poll, sensor read, advisory request
\* or upload is ever issued, and connect_wifi is not invoked again.
C8_WifiFailureIsFinal ==
    /\ issued.connect_wifi = (IF pc \in {"start", "connect"} THEN 0 ELSE 1)
    /\ wifi = "down" =>
         /\ pc \in {"wifi_fail", "halted"}
         /\ issued = [NothingIssued EXCEPT !.connect_wifi = 1]
         /\ humidity_readings = <<>>
         /\ Indices(IsCall) = {}
         /\ pc = "halted" =>
              trace[Len(trace)] = update_lcd(LcdText("WiFi Fail!\nCheck config"), 2)[1]

C8_Witness == pc = "halted" /\ wifi = "down"

\* the part of the event list written by connect_wifi
InConnectWifi == pc \in {"wifi_poll", "wifi_fail", "halted"} \/ (pc = "loop" /\ cycles = 0)

\* C9: connect_wifi terminates: with the link up at entry it returns true
\* without connecting or polling; otherwise it polls at most 10 times with a
\* 1-second sleep after each poll that saw the link down, returns true at
\* the first poll that sees the link up, and returns false exactly when 10
\* polls saw it down.
C9_ConnectWifiBounded ==
    InConnectWifi =>
        LET loopPolls == Indices(IsLoopPoll)
            upPolls == {i \in loopPolls : trace[i].arg.up}
            entryUp == \E i \in DOMAIN trace :
                          trace[i].op = "isconnected" /\ trace[i].arg.at = "entry"
                                                       /\ trace[i].arg.up
        IN  /\ Cardinality(loopPolls) <= 10
            /\ entryUp => /\ wifi = "up"
                          /\ loopPolls = {}
                          /\ \A i \in DOMAIN trace : trace[i].op # "connect"
            /\ \A i \in loopPolls \ upPolls : trace[i + 1] = Ev("sleep", 1)
            /\ \A i \in upPolls : /\ wifi = "up"
                                  /\ \A j \in loopPolls : j <= i
            /\ Cardinality(upPolls) <= 1
            /\ (wifi = "up") = (entryUp \/ upPolls # {})
            /\ (wifi = "down") = (Cardinality(loopPolls \ upPolls) = 10 /\ upPolls = {}
                                  /\ pc # "wifi_poll")
            /\ (pc = "wifi_poll" /\ Cardinality(loopPolls) = 10) => ENABLED WifiGiveUp

C9_Witness ==
    /\ pc = "loop"
    /\ cycles = 0
    /\ wifi = "up"
    /\ Cardinality(Indices(IsLoopPoll)) = 10

\* a call whose transport or parse step failed
CallFailed(e) ==
    /\ IsCall(e)
    /\ \/ e.arg.outcome.kind = "raise"
       \/ e.arg.outcome.kind = "badjson" /\ ~IsUpload(e)

\* C10: in request_endpoint (GET and POST) and request_gemini_response every
\* transport or parse failure is caught inside the primitive: it returns
\* null, writes exactly one error-level log entry, and raises nothing.
C10_RemoteFailureContained ==
    \A i \in DOMAIN trace :
        CallFailed(trace[i]) =>
            /\ trace[i].arg.result.ret = None
            /\ ~trace[i].arg.result.raised
            /\ Len(trace[i].arg.result.logs) = 1
            /\ trace[i].arg.result.logs[1].level = "error"
            /\ i + 1 <= Len(trace) /\ trace[i + 1] = Ev("log", trace[i].arg.result.logs[1])
            /\ i + 2 <= Len(trace) => trace[i + 2].op # "log"

C10_Witness ==
    /\ pc = "loop"
    /\ \E i \in Indices(IsAdviceRequest) : trace[i].arg.outcome.kind = "badjson"
    /\ \E i \in Indices(IsUpload) : trace[i].arg.outcome.kind = "raise"

\* ------------------------------------------------ reading the event list, 2
IsReadingLcd(e) == e.op = "lcd" /\ e.arg.text.kind = "Humidity"
IsAverage(e) == e.op = "average"
IsClassify(e) == e.op = "classify"

\* the sum of a list, by position
RECURSIVE Total(_)
Total(s) == IF Len(s) = 0 THEN 0 ELSE s[Len(s)] + Total(SubSeq(s, 1, Len(s) - 1))

\* the number q is the mean of the non-empty list s
IsMeanOf(q, s) == q.den > 0 /\ q.num * Len(s) = Total(s) * q.den

\* the label of a reading against the band 60..75
Label(v) == CASE v < 60 -> "Too Dry!" [] v > 75 -> "Too Humid!" [] OTHER -> "Optimal"

IsPrefix(a, b) == Len(a) <= Len(b) /\ SubSeq(b, 1, Len(a)) = a

\* C11: in an enabled cycle with reading v that gets as far as the upload,
\* the displayed status is the classification of v, v is appended before the
\* average is taken, and the upload carries humidity v and the mean of the
\* history including v (v = 65 shows "Optimal").
C11_ReadingFlowsThrough ==
    \A i \in Indices(IsUpload) :
        /\ inputs.sensor.kind = "value"
        /\ humidity_readings = Append(inputs.before, inputs.sensor.v)
        /\ trace[i].arg.payload.humidity = inputs.sensor.v
        /\ IsMeanOf(trace[i].arg.payload.avg_humidity, humidity_readings)
        /\ \E j \in Indices(IsReadingLcd) :
              /\ j < i
              /\ trace[j].arg.text.humidity = inputs.sensor.v
              /\ trace[j].arg.text.status = Label(inputs.sensor.v)
              /\ trace[j].arg.delay = 3
              /\ inputs.sensor.v = 65 => trace[j].arg.text.status = "Optimal"
        /\ \A a \in Indices(IsAppend), m \in Indices(IsAverage) : a < m

C11_Witness ==
    /\ pc = "loop"
    /\ Indices(IsUpload) # {}
    /\ inputs.sensor = SensorValue(65)
    /\ inputs.before = <<50>>
    /\ inputs.advice.kind = "body" /\ ~AdviceUnusable(inputs.advice)
    /\ inputs.upload.kind = "body"

\* C12: the history is append-only: across every step its old contents are a
\* prefix of the new ones, and over a cycle its length grows by 1 when the
\* cycle is enabled and gets a reading, and by 0 otherwise.
C12_HistoryAppendOnly ==
    [][/\ IsPrefix(humidity_readings, humidity_readings')
       /\ IsPrefix(inputs'.before, humidity_readings')
       /\ Len(humidity_readings') =
            Len(inputs'.before) + (IF inputs'.sensor.kind = "value" THEN 1 ELSE 0)]_vars

C12_Witness ==
    /\ pc = "loop"
    /\ cycles = 3
    /\ Len(humidity_readings) = 2
    /\ humidity_readings[1] # humidity_readings[2]
    /\ inputs.sensor.kind = "none"

\* ------------------------------------------- the pure functions taken alone
\* A second specification applies calculate_humidity_status to every reading
\* in 0..MaxHumidity, and append / calculate_average_humidity to every
\* history of up to MaxHistory readings.
Recorded == Humidities \cup {70}

PureInit ==
    /\ pc \in {"classify", "history"}
    /\ polls = 0
    /\ wifi = "pending"
    /\ humidity_readings = <<>>
    /\ locals = NoLocals
    /\ trace = <<>>
    /\ cycles = 0
    /\ issued = NothingIssued
    /\ inputs = NoInputs

\* line 141
Classify ==
    /\ pc = "classify"
    /\ \E v \in 0..MaxHumidity :
         locals' = [locals EXCEPT !.humidity = v,
                                  !.humidity_status = calculate_humidity_status(v)]
    /\ UNCHANGED <<pc, polls, wifi, humidity_readings, trace, cycles, issued, inputs>>

\* line 139
Record ==
    /\ pc = "history"
    /\ Len(humidity_readings) < MaxHistory
    /\ \E v \in Recorded : humidity_readings' = Append(humidity_readings, v)
    /\ UNCHANGED <<pc, polls, wifi, locals, trace, cycles, issued, inputs>>

\* line 140; inputs.before keeps the list the average was taken of
Average ==
    /\ pc = "history"
    /\ locals' = [locals EXCEPT !.avg_humidity = calculate_average_humidity(humidity_readings)]
    /\ trace' = <<Ev("average", calculate_average_humidity(humidity_readings))>>
    /\ inputs' = [inputs EXCEPT !.before = humidity_readings]
    /\ UNCHANGED <<pc, polls, wifi, humidity_readings, cycles, issued>>

PureNext ==
    \/ Classify
    \/ Record
    \/ Average

PureSpec == PureInit /\ [][PureNext]_vars

\* C13: calculate_humidity_status is total: "Too Dry!" iff v < 60,
\* "Too Humid!" iff v > 75, "Optimal" otherwise, so 60 and 75 are "Optimal".
C13_ClassificationBands ==
    (pc = "classify" /\ locals # NoLocals) =>
        /\ locals.humidity_status \in {"Too Dry!", "Too Humid!", "Optimal"}
        /\ (locals.humidity_status = "Too Dry!") = (locals.humidity < 60)
        /\ (locals.humidity_status = "Too Humid!") = (locals.humidity > 75)
        /\ (locals.humidity_status = "Optimal") =
             (locals.humidity >= 60 /\ locals.humidity <= 75)
        /\ locals.humidity \in {60, 75} => locals.humidity_status = "Optimal"

C13_Witness ==
    /\ pc = "classify"
    /\ locals.humidity = 60
    /\ locals.humidity_status = "Optimal"

\* C14: calculate_average_humidity gives 0 for the empty history and the
\* arithmetic mean of all recorded values otherwise; after 50, 60, 70 it
\* gives 60.
C14_AverageIsMean ==
    pc = "history" =>
        \A i \in Indices(IsAverage) :
            /\ inputs.before = <<>> => trace[i].arg = [num |-> 0, den |-> 1]
            /\ inputs.before # <<>> => IsMeanOf(trace[i].arg, inputs.before)
            /\ inputs.before = <<50, 60, 70>> => trace[i].arg = [num |-> 60, den |-> 1]
            /\ IsPrefix(inputs.before, humidity_readings)

C14_Witness ==
    /\ pc = "history"
    /\ Indices(IsAverage) # {}
    /\ inputs.before = <<50, 60, 70>>
    /\ locals.avg_humidity = [num |-> 60, den |-> 1]

\* the place of an event in the order of an enabled cycle; 0 for the events
\* the order says nothing about (log entries, sleeps, the other messages)
Rank(e) ==
    IF IsStatusPoll(e) THEN 1
    ELSE IF IsMeasure(e) THEN 2
    ELSE IF IsAppend(e) THEN 3
    ELSE IF IsAverage(e) THEN 4
    ELSE IF IsClassify(e) THEN 5
    ELSE IF IsReadingLcd(e) THEN 6
    ELSE IF IsAdviceRequest(e) THEN 7
    ELSE IF e.op = "lcd" /\ e.arg.text.kind \in {"advice", "Failed to get advice"} THEN 8
    ELSE IF IsUpload(e) THEN 9
    ELSE IF e.op = "lcd" /\ e.arg.text.kind = "Sensor working..." THEN 10
    ELSE 0

RanksPresent == {Rank(trace[i]) : i \in DOMAIN trace}

\* C15: within a cycle the steps occur in the order status poll, sensor read,
\* append, average, classification, display of reading and status (3 s),
\* advisory request and its display, upload, idle message; no upload without
\* the finished advisory step before it, no advisory request without the
\* reading display before it.
C15_StepOrder ==
    inputs.status # Unset =>
        /\ \A i, j \in DOMAIN trace :
              (i < j /\ Rank(trace[i]) # 0 /\ Rank(trace[j]) # 0)
                 => Rank(trace[i]) < Rank(trace[j])
        /\ 9 \in RanksPresent => (1..8) \subseteq RanksPresent
        /\ 7 \in RanksPresent => (1..6) \subseteq RanksPresent
        /\ \A i \in Indices(IsReadingLcd) : trace[i].arg.delay = 3
        /\ pc = "store" => 8 \in RanksPresent

C15_Witness ==
    /\ pc = "loop"
    /\ (1..10) \subseteq RanksPresent

\* the messages written to the display, in order
LcdSequence == [i \in 1..Len(SelectSeq(trace, LAMBDA e : e.op = "lcd")) |->
                   SelectSeq(trace, LAMBDA e : e.op = "lcd")[i].arg.text.kind]

\* C16: every cycle that starts ends by showing "Sensor working..." and
\* sleeping 2 seconds before the next poll; a disabled cycle shows exactly
\* "Sensor is OFF" and then "Sensor working...".
C16_EveryCycleEndsIdle ==
    inputs.status # Unset =>
        /\ pc \in {"sensor_off", "process", "advise", "store", "except", "idle", "loop"}
        /\ pc = "loop" =>
             /\ trace[Len(trace)] = Ev("sleep", 2)
             /\ trace[Len(trace) - 1] = update_lcd(LcdText("Sensor working..."), 2)[1]
        /\ (pc = "loop" /\ ~StatusExactlyON(inputs.status)) =>
             LcdSequence = <<"Sensor is OFF", "Sensor working...">>

\* C17: no remote call is retried: a cycle issues exactly one status poll, at
\* most one advisory request and at most one upload, also when a call fails.
C17_NoRetry ==
    inputs.status # Unset =>
        /\ Cardinality(Indices(IsStatusPoll)) = 1
        /\ Cardinality(Indices(IsAdviceRequest)) <= 1
        /\ Cardinality(Indices(IsUpload)) <= 1
        /\ issued.status = cycles + (IF pc = "loop" THEN 0 ELSE 1)
        /\ issued.advice <= issued.status
        /\ issued.upload <= issued.advice

C17_Witness ==
    /\ pc = "loop"
    /\ inputs.advice.kind = "raise"
    /\ inputs.upload.kind = "raise"
    /\ Cardinality(Indices(IsAdviceRequest)) = 1
    /\ Cardinality(Indices(IsUpload)) = 1

\* C16 apart from the cycles whose status poll ends the program
CycleEndsIdleUnlessCrashed ==
    (inputs.status # Unset /\ pc # "crashed") => C16_EveryCycleEndsIdle

\* ------------------------------------------------------- tokens of a text
\* the positions where a whitespace-delimited token begins
TokenStarts(s) == {i \in 1..Len(s) : ~IsSpace(s[i]) /\ (i = 1 \/ IsSpace(s[i - 1]))}
TokenCount(s) == Cardinality(TokenStarts(s))

\* the k-th token: from the k-th start up to the last character before the
\* next whitespace
TokenAt(s, k) ==
    LET starts == TokenStarts(s)
        from == CHOOSE i \in starts : Cardinality({j \in starts : j < i}) = k - 1
        to == CHOOSE j \in from..Len(s) :
                 /\ \A x \in from..j : ~IsSpace(s[x])
                 /\ (j = Len(s) \/ IsSpace(s[j + 1]))
    IN  SubSeq(s, from, to)

RECURSIVE TokenLengths(_, _)
TokenLengths(s, k) == IF k = 0 THEN 0 ELSE Len(TokenAt(s, k)) + TokenLengths(s, k - 1)

\* the first text part of a usable advisory response
HasAdviceText(outcome) ==
    /\ outcome.kind = "body"
    /\ ~AdviceUnusable(outcome)
    /\ "text" \in DOMAIN outcome.body.v["candidates"].v[1].v["content"].v["parts"].v[1].v
FirstText(outcome) ==
    outcome.body.v["candidates"].v[1].v["content"].v["parts"].v[1].v["text"].v

IsAdviceLcd(e) == e.op = "lcd" /\ e.arg.text.kind = "advice"

\* shown is the first min(20, n) tokens of text, single-spaced, then "..."
IsTruncationOf(shown, text) ==
    LET m == IF TokenCount(text) < 20 THEN TokenCount(text) ELSE 20
        body == SubSeq(shown, 1, Len(shown) - 3)
    IN  /\ Len(shown) >= 3
        /\ SubSeq(shown, Len(shown) - 2, Len(shown)) = <<".", ".", ".">>
        /\ TokenCount(body) = m
        /\ \A k \in 1..m : TokenAt(body, k) = TokenAt(text, k)
        /\ \A x \in 1..Len(body) : IsSpace(body[x]) => body[x] = " "
        /\ Len(body) = TokenLengths(text, m) + (IF m = 0 THEN 0 ELSE m - 1)

\* C18: on a successful advisory response the text shown beneath the status
\* label is the first min(20, n) whitespace-delimited tokens of the first
\* text part joined by single spaces and followed by "...", cut or not, and
\* it is held for 3 seconds.
C18_AdviceTruncated ==
    /\ \A i \in Indices(IsAdviceLcd) :
          /\ trace[i].arg.delay = 3
          /\ trace[i].arg.text.status = Label(inputs.sensor.v)
          /\ (HasAdviceText(inputs.advice) /\ pc = "store") =>
                IsTruncationOf(trace[i].arg.text.advice, FirstText(inputs.advice))
    /\ (HasAdviceText(inputs.advice) /\ pc \in {"store", "idle", "loop"}) =>
          Cardinality(Indices(IsAdviceLcd)) = 1

C18_Witness ==
    /\ pc = "store"
    /\ HasAdviceText(inputs.advice)
    /\ TokenCount(FirstText(inputs.advice)) = 20
    /\ \E i \in Indices(IsAdviceLcd) :
          Len(trace[i].arg.text.advice) = Len(FirstText(inputs.advice)) + 3

\* C19: the number of uploads never exceeds the length of the history, every
\* upload carries the last element of the history as humidity, and a reading
\* can stay in the history without having been uploaded (C19_Witness).
C19_UploadsFollowHistory ==
    /\ issued.upload <= Len(humidity_readings)
    /\ \A i \in Indices(IsUpload) :
          /\ Len(humidity_readings) > 0
          /\ trace[i].arg.payload.humidity = humidity_readings[Len(humidity_readings)]

C19_Witness ==
    /\ pc = "loop"
    /\ issued.upload = 1
    /\ Len(humidity_readings) = 2
    /\ Indices(IsUpload) = {}
    /\ inputs.sensor.kind = "value"
    /\ humidity_readings = Append(inputs.before, inputs.sensor.v)

\* the advisory response makes generate_vegetable_suggestions raise
AdviceRaises(outcome) ==
    /\ outcome.kind = "body"
    /\ DOMAIN outcome.body.v # {}
    /\ AdviceUnusable(outcome)

====
